---- MODULE Spec2Model ----
(***************************************************************************)
(* Query-understanding and retrieval-orchestration pipeline of the         *)
(* call-center assistant (app/chatbot.py, app/rag.py), and the session    *)
(* state of its chat page (app/ui.py).                                     *)
(*                                                                         *)
(* Texts are character strings.  A Python value that may be None is the    *)
(* empty tuple (None) or a one-element tuple (Some(v)).  Distances are     *)
(* counted in tenths, so the threshold 1.2 is 12.                          *)
(***************************************************************************)
EXTENDS Integers, Sequences, FiniteSets, TLC

VARIABLES
  pc,                 \* position of the current call
  question,           \* argument question of answer_question (None or Some)
  history,            \* argument history of answer_question (None or Some)
  k,                  \* argument k of answer_question
  text,               \* argument text of the last classify_intent call
  intent,             \* value returned by the last classify_intent call
  retrieval_question, \* query handed to retrieve_context
  context_docs,       \* list returned by retrieve_context
  best_distance,      \* minimum distance returned by retrieve_context
  prompt,             \* (system_instruction, user_prompt) sent to the generator
  retrieverCalls,     \* retriever invocations in the current call
  generatorCalls,     \* generator invocations in the current call
  response,           \* None, or Some(response.text) once the generator answered
  result,             \* None, or Some(<<answer_text, top_context>>)
  followup_flag,      \* None, or Some(value of is_followup in the current call)
  n_results,          \* None, or Some(k handed to retrieve_context)
  history_text,       \* None, or Some(value of build_history_prefix)
  thrown,             \* None, or Some(<<collaborator, exception>>) it raised
  error,              \* None, or Some(exception leaving answer_question)
  previous,           \* None, or Some(<<text, history, intent>>) of the call before
  messages,           \* st.session_state.messages
  user_query,         \* st.session_state.user_query
  processing_query,   \* st.session_state.processing_query
  collection,         \* entries of the Chroma collection: id, document, source
  rebuild,            \* argument rebuild of build_or_load_index
  loaded,             \* docs_excel + docs_pdf of the current call
  existing,           \* entries of the collection when the call began
  ops                 \* what the current call of build_or_load_index has done

vars == <<pc, question, history, k, text, intent, retrieval_question,
          context_docs, best_distance, prompt, retrieverCalls,
          generatorCalls, response, result, followup_flag, n_results,
          history_text, thrown, error, previous, messages, user_query,
          processing_query, collection, rebuild, loaded, existing, ops>>

\* the index and the locals of build_or_load_index
store == <<collection, rebuild, loaded, existing, ops>>

\* what no call of answer_question or classify_intent touches
session == <<previous, messages, user_query, processing_query, collection,
             rebuild, loaded, existing, ops>>

None == <<>>
Some(v) == <<v>>
IsNone(o) == Len(o) = 0
Val(o) == o[1]

(***************************************************************************)
(* Constants of app/chatbot.py                                             *)
(***************************************************************************)
BANK_KEYWORDS ==
  <<
    "account", "savings", "current", "checking", "fixed deposit",
    "time deposit", "term deposit", "deposit", "withdrawal", "withdraw",
    "transfer", "remittance", "loan", "credit", "card", "debit", "atm",
    "cif", "kyc", "mobile app", "mobile banking", "internet banking",
    "online banking", "ibanking", "i-banking", "app login", "otp",
    "one time password", "one-time password", "password", "pin", "passcode",
    "login", "log in", "locked", "block", "blocked", "lock", "unlock",
    "statement", "passbook", "slip", "fees", "charges", "interest", "rate",
    "limit", "transaction", "failed transaction", "login", "log in",
    "cannot login", "can't login", "failed login", "mobile app login",
    "login issue", "password", "otp", "verification", "auth",
    "authentication"
>>

PROBLEM_KEYWORDS ==
  <<
    "cannot", "can't", "cant", "error", "issue", "problem", "failed",
    "not working", "still cannot", "still can't", "doesn't work",
    "does not work"
>>

SMALLTALK_KEYWORDS ==
  {
    "bye", "cool", "good afternoon", "good evening", "good morning",
    "goodbye", "got it", "great", "hello", "hey", "hi", "nice", "ok",
    "okay", "see you", "thank", "thank you", "thanks", "understood"
}

SMALLTALK_REPLIES ==
  <<
    "Sure. What case are you working on?",
    "No problem. Tell me the customer's question when you're ready.",
    "Happy to help. What does the customer need?",
    "Got it. Please type the customer's question."
>>

\* the character class [ក-៿] of contains_khmer
KhmerBlock ==
  {
    "ក", "ខ", "គ", "ឃ", "ង", "ច", "ឆ", "ជ", "ឈ", "ញ", "ដ", "ឋ", "ឌ", "ឍ",
    "ណ", "ត", "ថ", "ទ", "ធ", "ន", "ប", "ផ", "ព", "ភ", "ម", "យ", "រ", "ល",
    "វ", "ឝ", "ឞ", "ស", "ហ", "ឡ", "អ", "ឣ", "ឤ", "ឥ", "ឦ", "ឧ", "ឨ", "ឩ",
    "ឪ", "ឫ", "ឬ", "ឭ", "ឮ", "ឯ", "ឰ", "ឱ", "ឲ", "ឳ", "឴", "឵", "ា", "ិ",
    "ី", "ឹ", "ឺ", "ុ", "ូ", "ួ", "ើ", "ឿ", "ៀ", "េ", "ែ", "ៃ", "ោ", "ៅ",
    "ំ", "ះ", "ៈ", "៉", "៊", "់", "៌", "៍", "៎", "៏", "័", "៑", "្", "៓",
    "។", "៕", "៖", "ៗ", "៘", "៙", "៚", "៛", "ៜ", "៝", "៞", "៟", "០", "១",
    "២", "៣", "៤", "៥", "៦", "៧", "៨", "៩", "៪", "៫", "៬", "៭", "៮", "៯",
    "៰", "៱", "៲", "៳", "៴", "៵", "៶", "៷", "៸", "៹", "៺", "៻", "៼", "៽",
    "៾", "៿"
}

\* characters removed by str.strip() and separating the words of str.split()
Whitespace == {" ", "\t", "\n", "\r", "\f"}

(***************************************************************************)
(* String primitives of Python used by the code                            *)
(***************************************************************************)
\* the letters str.lower() changes, among the characters of the inputs
ToLower ==
  "A" :> "a" @@ "B" :> "b" @@ "C" :> "c" @@ "D" :> "d" @@ "E" :> "e" @@
  "F" :> "f" @@ "G" :> "g" @@ "H" :> "h" @@ "I" :> "i" @@ "J" :> "j" @@
  "K" :> "k" @@ "L" :> "l" @@ "M" :> "m" @@ "N" :> "n" @@ "O" :> "o" @@
  "P" :> "p" @@ "Q" :> "q" @@ "R" :> "r" @@ "S" :> "s" @@ "T" :> "t" @@
  "U" :> "u" @@ "V" :> "v" @@ "W" :> "w" @@ "X" :> "x" @@ "Y" :> "y" @@
  "Z" :> "z"

CharAt(s, i) == SubSeq(s, i, i)

\* kw in t
Contains(kw, t) ==
  \E i \in 1..(Len(t) - Len(kw) + 1) : SubSeq(t, i, i + Len(kw) - 1) = kw

LowerChar(c) == IF c \in DOMAIN ToLower THEN ToLower[c] ELSE c

RECURSIVE Lower(_)
\* s.lower(), character by character (by halves, to keep the evaluation shallow)
Lower(s) ==
  IF Len(s) = 0 THEN ""
  ELSE IF Len(s) = 1 THEN LowerChar(s)
  ELSE LET h == Len(s) \div 2
       IN Lower(SubSeq(s, 1, h)) \o Lower(SubSeq(s, h + 1, Len(s)))

RECURSIVE LStrip(_, _)
LStrip(s, chars) ==
  IF s = "" THEN ""
  ELSE IF Head(s) \in chars THEN LStrip(Tail(s), chars) ELSE s

RECURSIVE RStrip(_, _)
\* s.rstrip(chars)
RStrip(s, chars) ==
  IF s = "" THEN ""
  ELSE IF CharAt(s, Len(s)) \in chars
         THEN RStrip(SubSeq(s, 1, Len(s) - 1), chars)
         ELSE s

\* s.strip()
Strip(s) == RStrip(LStrip(s, Whitespace), Whitespace)

RECURSIVE WordEnd(_, _)
\* the index of the first whitespace character of t from i on, Len(t) + 1 if none
WordEnd(t, i) ==
  IF i > Len(t) THEN i
  ELSE IF CharAt(t, i) \in Whitespace THEN i ELSE WordEnd(t, i + 1)

RECURSIVE WordStarts(_, _, _)
\* the indices in lo..hi at which a word of t starts, in order (by halves)
WordStarts(t, lo, hi) ==
  IF lo > hi THEN <<>>
  ELSE IF lo = hi THEN
    IF /\ CharAt(t, lo) \notin Whitespace
       /\ (lo = 1 \/ CharAt(t, lo - 1) \in Whitespace)
      THEN <<lo>>
      ELSE <<>>
  ELSE LET mid == (lo + hi) \div 2
       IN WordStarts(t, lo, mid) \o WordStarts(t, mid + 1, hi)

\* s.split(): the maximal runs of non-whitespace characters, in order
Split(s) ==
  LET starts == WordStarts(s, 1, Len(s))
  IN [j \in 1..Len(starts) |-> SubSeq(s, starts[j], WordEnd(s, starts[j]) - 1)]

SeqToSet(s) == {s[i] : i \in 1..Len(s)}

(***************************************************************************)
(* Utility functions of app/chatbot.py                                     *)
(***************************************************************************)
\* re.match in place of re.search: only the first character is tested
contains_khmer_first(t) ==
  IF t = "" THEN FALSE ELSE CharAt(t, 1) \in KhmerBlock

contains_khmer(t) ==
  IF t = "" THEN FALSE
  ELSE \E i \in 1..Len(t) : CharAt(t, i) \in KhmerBlock

\* kw in t.split() in place of kw in t
keyword_score_words(t, keywords) ==
  LET ws == SeqToSet(Split(Lower(t))) IN
  Cardinality({i \in 1..Len(keywords) : keywords[i] \in ws})

keyword_score(t, keywords) ==
  LET low == Lower(t) IN
  Cardinality({i \in 1..Len(keywords) : Contains(keywords[i], low)})

WH_WORDS == <<"what", "how", "when", "where", "why", "which">>

\* "why" missing from wh_words
has_wh_no_why(stripped) ==
  \E i \in 1..Len(WH_WORDS) :
    WH_WORDS[i] /= "why" /\ Contains(WH_WORDS[i], stripped)

\* stripped in w in place of w in stripped
has_wh_reversed(stripped) ==
  \E i \in 1..Len(WH_WORDS) : Contains(stripped, WH_WORDS[i])

\* any(w in stripped for w in wh_words)
has_wh(stripped) ==
  \E i \in 1..Len(WH_WORDS) : Contains(WH_WORDS[i], stripped)

\* line 194 without its third test
meta_intent_short(stripped) ==
  \/ (Contains("question", stripped) /\ Contains("have", stripped))
  \/ Contains("want to ask", stripped)
  \/ Contains("can i ask", stripped)
  \/ Contains("can you answer", stripped)

\* the meta-intent tests of lines 192 and 194
meta_intent(stripped) ==
  \/ (Contains("question", stripped) /\ Contains("have", stripped))
  \/ Contains("want to ask", stripped)
  \/ Contains("can i ask", stripped)
  \/ Contains("can you answer", stripped)
  \/ Contains("you can answer", stripped)

\* lines 155-205: txt is the argument, t its lower-cased and trimmed form
classify_rules(txt, t) ==
  LET stripped == RStrip(t, {".", "!", "?"})
      words == Split(stripped)
      word_count == Len(words)
      has_question_mark == Contains("?", txt)
      bank_score == keyword_score(stripped, BANK_KEYWORDS)
      problem_score == keyword_score(stripped, PROBLEM_KEYWORDS)
      smalltalk_score ==
        Cardinality({kw \in SMALLTALK_KEYWORDS : Contains(kw, stripped)})
  IN
  IF bank_score > 0 \/ problem_score > 0 THEN "banking"
  ELSE IF has_question_mark \/ has_wh(stripped) THEN
    IF Contains("how are you", stripped) \/ Contains("how's it going", stripped)
      THEN "smalltalk"
      ELSE "banking"
  ELSE IF /\ smalltalk_score > 0
          /\ word_count <= 12
          /\ (meta_intent(stripped) \/ word_count <= 6)
    THEN "smalltalk"
  ELSE IF word_count <= 4 /\ bank_score = 0 THEN "smalltalk"
  ELSE "banking"

\* the history decides the label
classify_intent_by_history(txt, hist) ==
  LET t == Strip(Lower(txt)) IN
  IF t = "" \/ Len(hist) > 0 THEN "smalltalk" ELSE classify_rules(txt, t)

\* the blank test returns the other label
classify_intent_blank_banking(txt, hist) ==
  LET t == Strip(Lower(txt)) IN
  IF t = "" THEN "banking" ELSE classify_rules(txt, t)

classify_intent(txt, hist) ==
  LET t == Strip(Lower(txt)) IN
  IF t = "" THEN "smalltalk" ELSE classify_rules(txt, t)

MARKERS ==
  <<"what about", "how about", "and for", "and then", "also", "too", "again",
    "valid", "without", "are you sure", "really">>

\* the first pair is read in place of the last
is_followup_first(q0, hist) ==
  IF Len(hist) = 0 THEN FALSE
  ELSE
    LET q == RStrip(Strip(Lower(q0)), {"?", "!", "."})
        words == Split(q)
        last_user_msg == Lower(hist[1][1])
        last_words == SeqToSet(Split(last_user_msg))
    IN
    IF Len(words) <= 6 THEN TRUE
    ELSE IF \E i \in 1..Len(MARKERS) : Contains(MARKERS[i], q) THEN TRUE
    ELSE IF last_words \cap SeqToSet(words) /= {} THEN TRUE
    ELSE FALSE

is_followup(q0, hist) ==
  IF Len(hist) = 0 THEN FALSE
  ELSE
    LET q == RStrip(Strip(Lower(q0)), {"?", "!", "."})
        words == Split(q)
        last_user_msg == Lower(hist[Len(hist)][1])
        last_words == SeqToSet(Split(last_user_msg))
    IN
    IF Len(words) <= 6 THEN TRUE
    ELSE IF \E i \in 1..Len(MARKERS) : Contains(MARKERS[i], q) THEN TRUE
    ELSE IF last_words \cap SeqToSet(words) /= {} THEN TRUE
    ELSE FALSE

RECURSIVE Join(_, _)
\* sep.join(parts)
Join(sep, parts) ==
  IF Len(parts) = 0 THEN ""
  ELSE IF Len(parts) = 1 THEN parts[1]
  ELSE parts[1] \o sep \o Join(sep, Tail(parts))

MAX_TURNS == 6

\* history[:max_turns] in place of history[-max_turns:]
build_history_prefix_oldest(hist, max_turns) ==
  IF Len(hist) = 0 THEN ""
  ELSE
    LET n == Len(hist)
        recent == SubSeq(hist, 1, IF n > max_turns THEN max_turns ELSE n)
        parts == [j \in 1..(2 * Len(recent)) |->
                    IF j % 2 = 1
                      THEN "Agent: " \o recent[(j + 1) \div 2][1]
                      ELSE "Assistant: " \o recent[j \div 2][2]]
    IN Join("\n", parts)

build_history_prefix(hist, max_turns) ==
  IF Len(hist) = 0 THEN ""
  ELSE
    LET n == Len(hist)
        recent == SubSeq(hist, IF n > max_turns THEN n - max_turns + 1 ELSE 1, n)
        parts == [j \in 1..(2 * Len(recent)) |->
                    IF j % 2 = 1
                      THEN "Agent: " \o recent[(j + 1) \div 2][1]
                      ELSE "Assistant: " \o recent[j \div 2][2]]
    IN Join("\n", parts)

\* f"{dist:.2f}" for a distance given in tenths
FormatDist(d) == ToString(d \div 10) \o "." \o ToString(d % 10) \o "0"

SYSTEM_INSTRUCTION ==
  "You are an internal assistant helping call-center agents at a bank.\n"
  \o "You must follow these rules:\n"
  \o "1) Use ONLY the provided context documents and short conversation history. Do not invent policies.\n"
  \o "2) If the context does not contain enough information, say you are not sure and suggest escalating or "
  \o "checking the official system.\n"
  \o "3) Always respond in this structure:\n"
  \o "   Customer answer: <short, simple explanation the agent will say to the customer in English>.\n"
  \o "   Internal notes: <detailed internal explanation referring to context, numbers, and conditions>.\n"
  \o "   Steps: <1-3 bullet points on what the agent should do>.\n"
  \o "4) Keep tone polite, clear, and professional. Do not mention embeddings, vectors, or retrieval.\n"

\* the documents are numbered from 0
ContextStr_zero(i, d) ==
  LET meta == d[2]
      src0 == IF IsNone(meta.source) THEN "unknown source" ELSE Val(meta.source)
      src == IF IsNone(meta.page) \/ Val(meta.page) = 0
               THEN src0
               ELSE src0 \o " (page " \o ToString(Val(meta.page)) \o ")"
  IN "[Doc " \o ToString(i - 1) \o " | " \o src \o " | dist=" \o FormatDist(d[3])
       \o "]\n" \o d[1]

\* one entry of context_strs; a document is <<doc, meta, dist>>
ContextStr(i, d) ==
  LET meta == d[2]
      src0 == IF IsNone(meta.source) THEN "unknown source" ELSE Val(meta.source)
      src == IF IsNone(meta.page) \/ Val(meta.page) = 0
               THEN src0
               ELSE src0 \o " (page " \o ToString(Val(meta.page)) \o ")"
  IN "[Doc " \o ToString(i) \o " | " \o src \o " | dist=" \o FormatDist(d[3])
       \o "]\n" \o d[1]

build_prompt(q, docs, htext) ==
  LET context_strs == [i \in 1..Len(docs) |-> ContextStr(i, docs[i])]
      context_block == IF Len(context_strs) > 0
                         THEN Join("\n\n---\n\n", context_strs)
                         ELSE "No context found."
      user_prompt == htext \o "\n\n"
                     \o "Knowledge base context:\n" \o context_block \o "\n\n"
                     \o "Agent's question: " \o q \o "\n\n"
                     \o "Now produce the structured answer."
  IN <<SYSTEM_INSTRUCTION, user_prompt>>

(***************************************************************************)
(* retrieve_context of app/rag.py, applied to the answer of the index:     *)
(* results is [documents, metadatas, distances], the three lists of the    *)
(* single query.                                                           *)
(***************************************************************************)
Min(a, b) == IF a <= b THEN a ELSE b

RECURSIVE MinOf(_)
MinOf(ds) == IF Len(ds) = 1 THEN ds[1] ELSE Min(ds[1], MinOf(Tail(ds)))

\* max(dists) in place of min(dists)
retrieve_context_max(results) ==
  LET docs == results.documents
      metas == results.metadatas
      dists == results.distances
      n == Min(Len(docs), Min(Len(metas), Len(dists)))
  IN [context_docs |-> [i \in 1..n |-> <<docs[i], metas[i], dists[i]>>],
      best_distance |->
        IF Len(dists) > 0
          THEN Some(CHOOSE d \in SeqToSet(dists) : \A e \in SeqToSet(dists) : e <= d)
          ELSE None]

\* dists[0] in place of min(dists)
retrieve_context_first(results) ==
  LET docs == results.documents
      metas == results.metadatas
      dists == results.distances
      n == Min(Len(docs), Min(Len(metas), Len(dists)))
  IN [context_docs |-> [i \in 1..n |-> <<docs[i], metas[i], dists[i]>>],
      best_distance |-> IF Len(dists) > 0 THEN Some(dists[1]) ELSE None]

retrieve_context(results) ==
  LET docs == results.documents
      metas == results.metadatas
      dists == results.distances
      n == Min(Len(docs), Min(Len(metas), Len(dists)))
  IN [context_docs |-> [i \in 1..n |-> <<docs[i], metas[i], dists[i]>>],
      best_distance |-> IF Len(dists) > 0 THEN Some(MinOf(dists)) ELSE None]

(***************************************************************************)
(* Fixed replies of answer_question                                        *)
(***************************************************************************)
KHMER_ANSWER ==
  "I detected Khmer text. Right now I can only search the internal knowledge base with English questions.\n"
  \o "Please retype the customer's question in English (product name, action, amount, etc.)."

\* the dash stands for the em dash (U+2014) of the source
KHMER_SNIPPET == "Khmer detected - RAG not used."

\* the dash stands for the em dash (U+2014) of the source
SMALLTALK_SNIPPET == "Smalltalk / intent - no context used."

\* distances are in tenths: 1.2
LOW_CONF_THRESHOLD == 12

FALLBACK_ANSWER ==
  "Customer answer: I'm not fully sure based on the available information. "
  \o "Please inform the customer that you will double-check and get back to them.\n\n"
  \o "Internal notes: Retrieval confidence was low or there is no closely related article "
  \o "in the current knowledge base.\n\n"
  \o "Steps:\n"
  \o "1) Confirm the customer's product and key details.\n"
  \o "2) Check the official product policy or internal system manually.\n"
  \o "3) If still unclear, escalate to a supervisor. (Human handoff recommended.)"

NO_CONTEXT_RETRIEVED == "No context retrieved."

NO_ANSWER == "Sorry, I could not generate an answer."

(***************************************************************************)
(* Inputs                                                                  *)
(***************************************************************************)
MaxPieces == 2
MaxHist == 1
MaxK == 2
MaxFill == 12

\* fragments from which the questions put to answer_question are built
QuestionPieces ==
  {"ក", "OTP", "hi", " ",
   "Please tell me more on our new branch opening hours "}

RECURSIVE PieceTexts(_)
PieceTexts(n) ==
  IF n = 0 THEN {""}
  ELSE LET shorter == PieceTexts(n - 1)
       IN shorter \cup {t \o p : t \in shorter, p \in QuestionPieces}

Questions == {None} \cup {Some(t) : t \in PieceTexts(MaxPieces)}

HistoryPairs ==
  {<<"what is the minimum balance for savings?", "...">>,
   <<"Branch list", "Sure. What case are you working on?">>}

RECURSIVE HistoryLists(_)
HistoryLists(n) ==
  IF n = 0 THEN {<<>>}
  ELSE LET shorter == HistoryLists(n - 1)
       IN shorter \cup {Append(h, p) : h \in shorter, p \in HistoryPairs}

Histories == {None} \cup {Some(h) : h \in HistoryLists(MaxHist)}

\* the documents of the collection: text and metadata
Documents ==
  {<<"Minimum balance for savings is 10 USD.",
     [source |-> Some("kb.xlsx"), page |-> None]>>,
   <<"OTP is valid for 2 minutes.",
     [source |-> Some("policy.pdf"), page |-> Some(3)]>>}

\* in tenths: 0.8, 1.2, 1.5
Distances == {8, 12, 15}

RECURSIVE Hits(_)
\* lists of at most n (document, distance) hits
Hits(n) ==
  IF n = 0 THEN {<<>>}
  ELSE LET shorter == Hits(n - 1)
       IN shorter \cup {Append(l, <<d, x>>) : l \in shorter,
                                               d \in Documents, x \in Distances}

\* what collection.query answers for n_results = n
QueryResults(n) ==
  {[documents |-> [i \in 1..Len(l) |-> l[i][1][1]],
    metadatas |-> [i \in 1..Len(l) |-> l[i][1][2]],
    distances |-> [i \in 1..Len(l) |-> l[i][2]]] : l \in Hits(n)}

\* response.text of the generator
ResponseTexts ==
  {None, Some(""), Some("Customer answer: yes.\nInternal notes: see Doc 1.\nSteps: none.")}

(***************************************************************************)
(* answer_question                                                         *)
(***************************************************************************)
Init ==
  /\ pc = "idle"
  /\ question = None
  /\ history = None
  /\ k = 5
  /\ text = None
  /\ intent = None
  /\ retrieval_question = None
  /\ context_docs = <<>>
  /\ best_distance = None
  /\ prompt = None
  /\ retrieverCalls = 0
  /\ generatorCalls = 0
  /\ response = None
  /\ result = None
  /\ followup_flag = None
  /\ n_results = None
  /\ history_text = None
  /\ thrown = None
  /\ error = None
  /\ previous = None
  /\ messages = <<>>
  /\ user_query = ""
  /\ processing_query = FALSE
  /\ collection = {}
  /\ rebuild = FALSE
  /\ loaded = <<>>
  /\ existing = {}
  /\ ops = <<>>

\* history or []
HistoryOf(h) == IF IsNone(h) THEN <<>> ELSE Val(h)

\* question or ""
RawQ(q) == IF IsNone(q) THEN "" ELSE Val(q)

\* lines 272-276
khmer_reply == <<KHMER_ANSWER, KHMER_SNIPPET>>

\* the pair in the wrong order
smalltalk_reply_swapped(r) == <<SMALLTALK_SNIPPET, SMALLTALK_REPLIES[r]>>

\* lines 283-286: r is the index drawn by random.choice
smalltalk_reply(r) == <<SMALLTALK_REPLIES[r], SMALLTALK_SNIPPET>>

\* the current question comes first
rewrite_query_swapped(raw_q, hist, flag) ==
  IF flag /\ Len(hist) > 0
    THEN raw_q \o "\nFollow-up: " \o hist[Len(hist)][1]
    ELSE raw_q

\* the normalized question is sent when nothing is rewritten
rewrite_query_normalized(raw_q, hist, flag) ==
  IF flag /\ Len(hist) > 0
    THEN hist[Len(hist)][1] \o "\nFollow-up: " \o raw_q
    ELSE Strip(Lower(raw_q))

\* lines 290-293
rewrite_query(raw_q, hist, flag) ==
  IF flag /\ Len(hist) > 0
    THEN hist[Len(hist)][1] \o "\nFollow-up: " \o raw_q
    ELSE raw_q

\* >= in place of >
low_conf_ge(docs, best) ==
  \/ Len(docs) = 0
  \/ IsNone(best)
  \/ Val(best) >= LOW_CONF_THRESHOLD

\* the distance is not compared with the threshold
low_conf_no_threshold(docs, best) ==
  \/ Len(docs) = 0
  \/ IsNone(best)

\* lines 302-304
low_conf(docs, best) ==
  \/ Len(docs) = 0
  \/ IsNone(best)
  \/ Val(best) > LOW_CONF_THRESHOLD

\* context_docs[-1] in place of context_docs[0]
top_context_last(docs) ==
  IF Len(docs) > 0 THEN docs[Len(docs)][1] ELSE NO_CONTEXT_RETRIEVED

\* lines 317 and 342
top_context(docs) ==
  IF Len(docs) > 0 THEN docs[1][1] ELSE NO_CONTEXT_RETRIEVED

\* only a missing text is replaced
answer_text_missing_only(response_text) ==
  IF IsNone(response_text)
    THEN NO_ANSWER
    ELSE Val(response_text)

\* and in place of or
answer_text_and(response_text) ==
  IF IsNone(response_text) \/ Val(response_text) = ""
    THEN ""
    ELSE NO_ANSWER

\* line 341: response.text or "Sorry, ..."
answer_text(response_text) ==
  IF IsNone(response_text) \/ Val(response_text) = ""
    THEN NO_ANSWER
    ELSE Val(response_text)

\* lines 266-298: up to the call of retrieve_context
answer_question(q, h, kk) ==
  /\ question' = q
  /\ history' = h
  /\ k' = kk
  /\ LET hist == HistoryOf(h)
         raw_q == RawQ(q)
         normalized_q == Strip(Lower(raw_q))
     IN
     IF contains_khmer(raw_q) THEN
       /\ result' = Some(khmer_reply)
       /\ pc' = "returned"
       /\ UNCHANGED <<text, intent, retrieval_question, retrieverCalls,
                      followup_flag, n_results>>
     ELSE
       LET i == classify_intent(normalized_q, hist) IN
       /\ text' = Some(normalized_q)
       /\ intent' = Some(i)
       /\ IF i = "smalltalk" THEN
            /\ \E r \in 1..Len(SMALLTALK_REPLIES) :
                 result' = Some(smalltalk_reply(r))
            /\ pc' = "returned"
            /\ UNCHANGED <<retrieval_question, retrieverCalls, followup_flag,
                           n_results>>
          ELSE
            LET flag == is_followup(normalized_q, hist) IN
            /\ followup_flag' = Some(flag)
            /\ retrieval_question' = Some(rewrite_query(raw_q, hist, flag))
            /\ n_results' = Some(kk)
            /\ retrieverCalls' = retrieverCalls + 1
            /\ pc' = "retrieving"
            /\ UNCHANGED result
  /\ UNCHANGED <<context_docs, best_distance, prompt, generatorCalls, response,
                 history_text, thrown, error>>
  /\ UNCHANGED session

\* lines 296-339: retrieve_context returns, up to the call of the generator
retriever_returns(results) ==
  /\ LET r == retrieve_context(results)
         docs == r.context_docs
         best == r.best_distance
     IN
     /\ context_docs' = docs
     /\ best_distance' = best
     /\ IF low_conf(docs, best) THEN
          /\ result' = Some(<<FALLBACK_ANSWER, top_context(docs)>>)
          /\ pc' = "returned"
          /\ UNCHANGED <<prompt, generatorCalls, history_text>>
        ELSE
          LET prefix == build_history_prefix(HistoryOf(history), MAX_TURNS) IN
          /\ history_text' = Some(prefix)
          /\ prompt' = Some(build_prompt(RawQ(question), docs, prefix))
          /\ generatorCalls' = generatorCalls + 1
          /\ pc' = "generating"
          /\ UNCHANGED result
  /\ UNCHANGED <<question, history, k, text, intent, retrieval_question,
                 retrieverCalls, response, followup_flag, n_results, thrown,
                 error>>
  /\ UNCHANGED session

\* exceptions a collaborator may raise
Exceptions == {"ConnectionError", "RuntimeError"}

\* the failure is swallowed and the fallback pair returned
retriever_raises_fallback(e) ==
  /\ thrown' = Some(<<"retriever", e>>)
  /\ result' = Some(<<FALLBACK_ANSWER, NO_CONTEXT_RETRIEVED>>)
  /\ pc' = "returned"
  /\ UNCHANGED <<question, history, k, text, intent, retrieval_question,
                 context_docs, best_distance, prompt, retrieverCalls,
                 generatorCalls, response, followup_flag, n_results,
                 history_text, error>>
  /\ UNCHANGED session

\* lines 296-298: retrieve_context raises e; no try/except is around the call
retriever_raises(e) ==
  /\ thrown' = Some(<<"retriever", e>>)
  /\ error' = Some(e)
  /\ pc' = "raised"
  /\ UNCHANGED <<question, history, k, text, intent, retrieval_question,
                 context_docs, best_distance, prompt, retrieverCalls,
                 generatorCalls, response, result, followup_flag, n_results,
                 history_text>>
  /\ UNCHANGED session

\* the embedding model or the index raises
RetrieverRaises ==
  /\ pc = "retrieving"
  /\ \E e \in Exceptions : retriever_raises(e)

\* lines 341-343: generate_content returns
\* a missing text is dereferenced: an error of the call's own
generator_returns_unguarded(response_text) ==
  /\ response' = Some(response_text)
  /\ IF IsNone(response_text)
       THEN /\ error' = Some("AttributeError")
            /\ pc' = "raised"
            /\ UNCHANGED result
       ELSE /\ result' = Some(<<answer_text(response_text),
                                top_context(context_docs)>>)
            /\ pc' = "returned"
            /\ UNCHANGED error
  /\ UNCHANGED <<question, history, k, text, intent, retrieval_question,
                 context_docs, best_distance, prompt, retrieverCalls,
                 generatorCalls, followup_flag, n_results, history_text,
                 thrown>>
  /\ UNCHANGED session

\* the turn is appended to the caller's list
generator_returns_appending(response_text) ==
  /\ response' = Some(response_text)
  /\ result' = Some(<<answer_text(response_text), top_context(context_docs)>>)
  /\ history' = Some(Append(HistoryOf(history),
                            <<RawQ(question), answer_text(response_text)>>))
  /\ pc' = "returned"
  /\ UNCHANGED <<question, k, text, intent, retrieval_question,
                 context_docs, best_distance, prompt, retrieverCalls,
                 generatorCalls, followup_flag, n_results, history_text,
                 thrown, error>>
  /\ UNCHANGED session

generator_returns(response_text) ==
  /\ response' = Some(response_text)
  /\ result' = Some(<<answer_text(response_text), top_context(context_docs)>>)
  /\ pc' = "returned"
  /\ UNCHANGED <<question, history, k, text, intent, retrieval_question,
                 context_docs, best_distance, prompt, retrieverCalls,
                 generatorCalls, followup_flag, n_results, history_text,
                 thrown, error>>
  /\ UNCHANGED session

\* lines 327-339: generate_content raises e; no try/except is around the call
generator_raises(e) ==
  /\ thrown' = Some(<<"generator", e>>)
  /\ error' = Some(e)
  /\ pc' = "raised"
  /\ UNCHANGED <<question, history, k, text, intent, retrieval_question,
                 context_docs, best_distance, prompt, retrieverCalls,
                 generatorCalls, response, result, followup_flag, n_results,
                 history_text>>
  /\ UNCHANGED session

\* the generator raises
GeneratorRaises ==
  /\ pc = "generating"
  /\ \E e \in Exceptions : generator_raises(e)

\* the locals of a call are gone once it is over
forget_call ==
  /\ pc' = "idle"
  /\ question' = None
  /\ history' = None
  /\ k' = 5
  /\ text' = None
  /\ intent' = None
  /\ retrieval_question' = None
  /\ context_docs' = <<>>
  /\ best_distance' = None
  /\ prompt' = None
  /\ retrieverCalls' = 0
  /\ generatorCalls' = 0
  /\ response' = None
  /\ result' = None
  /\ followup_flag' = None
  /\ n_results' = None
  /\ history_text' = None
  /\ thrown' = None
  /\ error' = None

\* the call is over; the caller may make the next one
NextTurn ==
  /\ pc \in {"returned", "raised", "classified", "decided", "built",
            "extracted"}
  /\ forget_call
  /\ UNCHANGED session

\* a caller calls answer_question
AnswerQuestion ==
  /\ pc = "idle"
  /\ \E q \in Questions, h \in Histories, kk \in 1..MaxK : answer_question(q, h, kk)

\* the index answers the query with at most k hits
RetrieverReturns ==
  /\ pc = "retrieving"
  /\ \E results \in QueryResults(Val(n_results)) : retriever_returns(results)

\* the generator answers
GeneratorReturns ==
  /\ pc = "generating"
  /\ \E t \in ResponseTexts : generator_returns(t)

Next ==
  \/ AnswerQuestion
  \/ RetrieverReturns
  \/ RetrieverRaises
  \/ GeneratorReturns
  \/ GeneratorRaises
  \/ NextTurn

Spec == Init /\ [][Next]_vars

TypeOK ==
  /\ pc \in {"idle", "retrieving", "generating", "returned", "raised",
            "classified", "decided", "built", "extracted", "loading",
            "embedding", "adding", "indexed", "index_raised"}
  /\ retrieverCalls \in 0..1
  /\ generatorCalls \in 0..1

(***************************************************************************)
(* classify_intent called on its own                                       *)
(***************************************************************************)
\* phrases opening a text
LeadPhrases ==
  {"", "hi", "hello", "thanks", "ok", "bye", "OTP not working", "cannot",
   "shopping", "what", "how are you", "How's it going", "i have a question",
   "want to ask", "can i ask", "you can answer", "Can you answer", "this",
   "ok we have"}

\* phrases closing a text
TailPhrases ==
  {"", "otp", "issue", "why", "how are you", "question", "thanks"}

Punctuations == {"", "?", " !"}

RECURSIVE Fill(_)
\* n neutral words
Fill(n) == IF n = 0 THEN "" ELSE " zz" \o Fill(n - 1)

ClassifyTexts ==
  {a \o Fill(n) \o (IF b = "" THEN "" ELSE " " \o b) \o p :
     a \in LeadPhrases, n \in 0..MaxFill, b \in TailPhrases, p \in Punctuations}

ClassifyHistories ==
  {<<>>, <<<<"what is the minimum balance for savings?", "...">>>>}

ClassifyIntent ==
  /\ pc = "idle"
  /\ \E t \in ClassifyTexts, h \in ClassifyHistories :
       /\ text' = Some(t)
       /\ history' = Some(h)
       /\ intent' = Some(classify_intent(t, h))
  /\ pc' = "classified"
  /\ UNCHANGED <<question, k, retrieval_question, context_docs, best_distance,
                 prompt, retrieverCalls, generatorCalls, response, result,
                 followup_flag, n_results, history_text, thrown, error>>
  /\ UNCHANGED session

NextClassify ==
  \/ ClassifyIntent
  \/ NextTurn

SpecClassify == Init /\ [][NextClassify]_vars

(***************************************************************************)
(* Properties of answer_question (Spec)                                    *)
(***************************************************************************)
\* a call of answer_question has been made and is not yet forgotten
Called == pc \in {"retrieving", "generating", "returned", "raised"}

\* retrieve_context has returned in the current call
Retrieved ==
  \/ pc = "generating"
  \/ (pc = "returned" /\ retrieverCalls = 1)
  \/ (pc = "raised" /\ generatorCalls = 1)

Answer == result[1][1]
Snippet == result[1][2]

HasKhmerChar(t) == \E i \in 1..Len(t) : CharAt(t, i) \in KhmerBlock

IsWhitespaceOnly(t) == \A i \in 1..Len(t) : CharAt(t, i) \in Whitespace

\* C1: a question with at least one character of U+1780-U+17FF, whatever
\* else it contains and whatever the history, gets the fixed Khmer message
\* and the fixed Khmer snippet; the retriever and the generator are not
\* invoked in that call.
C1_KhmerRedirect ==
  (Called /\ HasKhmerChar(RawQ(question))) =>
    /\ pc = "returned"
    /\ result = Some(<<KHMER_ANSWER, KHMER_SNIPPET>>)
    /\ retrieverCalls = 0
    /\ generatorCalls = 0

\* a Khmer character after a banking keyword, with a previous turn
C1_Witness ==
  /\ pc = "returned"
  /\ HasKhmerChar(RawQ(question))
  /\ Contains("OTP", RawQ(question))
  /\ ~HasKhmerChar(SubSeq(RawQ(question), 1, 1))
  /\ Len(HistoryOf(history)) > 0
  /\ result = Some(<<KHMER_ANSWER, KHMER_SNIPPET>>)

\* C2: a question without Khmer characters that classify_intent classifies
\* as smalltalk gets one of the SMALLTALK_REPLIES and the fixed smalltalk
\* snippet; the retriever and the generator are not invoked in that call.
C2_SmalltalkReply ==
  (Called /\ ~HasKhmerChar(RawQ(question)) /\ intent = Some("smalltalk")) =>
    /\ pc = "returned"
    /\ ~IsNone(result)
    /\ Answer \in SeqToSet(SMALLTALK_REPLIES)
    /\ Snippet = SMALLTALK_SNIPPET
    /\ retrieverCalls = 0
    /\ generatorCalls = 0

\* a greeting answered by the last reply of the pool
C2_Witness ==
  /\ pc = "returned"
  /\ intent = Some("smalltalk")
  /\ Contains("hi", RawQ(question))
  /\ ~IsNone(result)
  /\ Answer = SMALLTALK_REPLIES[Len(SMALLTALK_REPLIES)]
  /\ Snippet = SMALLTALK_SNIPPET

\* the claim's condition of the fallback branch, with the threshold 1.2
LowConfidence ==
  \/ Len(context_docs) = 0
  \/ IsNone(best_distance)
  \/ Val(best_distance) > 12

\* the call ended on the fallback branch
FallbackTaken ==
  /\ pc = "returned"
  /\ generatorCalls = 0
  /\ ~IsNone(result)
  /\ Answer = FALLBACK_ANSWER

\* the call went on to synthesis
SynthesisTaken == generatorCalls = 1 /\ ~IsNone(prompt)

\* C3: after retrieval the fallback branch is taken exactly when the list is
\* empty, or the minimum distance is None, or it is greater than 1.2; a
\* minimum equal to 1.2 with a non-empty list goes to synthesis.  On the
\* fallback branch the fixed answer is returned and the generator is not
\* invoked.
C3_ConfidenceGate ==
  Retrieved =>
    /\ LowConfidence <=> FallbackTaken
    /\ ~LowConfidence <=> SynthesisTaken

\* a minimum distance of exactly 1.2 went to synthesis
C3_Witness ==
  /\ pc = "generating"
  /\ Len(context_docs) > 0
  /\ best_distance = Some(12)
  /\ generatorCalls = 1

\* C4: with at least one document and a minimum distance of at most 1.2 the
\* generator is invoked exactly once; the answer is the generator's text
\* when that is not empty, and the snippet is the first document's text.
C4_Synthesis ==
  (Retrieved /\ Len(context_docs) >= 1 /\ ~IsNone(best_distance)
     /\ Val(best_distance) <= 12) =>
    /\ generatorCalls = 1
    /\ pc = "returned" =>
         /\ ~IsNone(result)
         /\ ~IsNone(response)
         /\ Snippet = context_docs[1][1]
         /\ (~IsNone(Val(response)) /\ Val(Val(response)) /= "") =>
              Answer = Val(Val(response))

\* two documents, minimum 0.8, and the generator's text returned
C4_Witness ==
  /\ pc = "returned"
  /\ Len(context_docs) = 2
  /\ context_docs[1][1] /= context_docs[2][1]
  /\ best_distance = Some(8)
  /\ ~IsNone(response)
  /\ ~IsNone(Val(response))
  /\ Val(Val(response)) /= ""
  /\ Answer = Val(Val(response))

\* C5: on the fallback branch the snippet is the first retrieved document's
\* text when the list is not empty, and "No context retrieved." when it is.
C5_FallbackSnippet ==
  (Retrieved /\ pc = "returned" /\ generatorCalls = 0) =>
    /\ ~IsNone(result)
    /\ Answer = FALLBACK_ANSWER
    /\ Snippet = IF Len(context_docs) > 0
                   THEN context_docs[1][1]
                   ELSE "No context retrieved."

\* two different documents at distance 1.5: the first one is the snippet
C5_Witness ==
  /\ pc = "returned"
  /\ generatorCalls = 0
  /\ Len(context_docs) = 2
  /\ context_docs[1][1] /= context_docs[2][1]
  /\ best_distance = Some(15)
  /\ Snippet = context_docs[1][1]

\* C10: for an empty, whitespace-only or missing question classify_intent
\* returns smalltalk and answer_question returns a canned smalltalk reply,
\* without raising and without invoking the retriever or the generator.
C10_BlankQuestion ==
  (Called /\ (IsNone(question) \/ IsWhitespaceOnly(Val(question)))) =>
    /\ pc = "returned"
    /\ intent = Some("smalltalk")
    /\ ~IsNone(result)
    /\ Answer \in SeqToSet(SMALLTALK_REPLIES)
    /\ Snippet = SMALLTALK_SNIPPET
    /\ retrieverCalls = 0
    /\ generatorCalls = 0

\* a missing question, with a previous turn
C10_Witness ==
  /\ pc = "returned"
  /\ IsNone(question)
  /\ Len(HistoryOf(history)) > 0
  /\ intent = Some("smalltalk")
  /\ ~IsNone(result)
  /\ Snippet = SMALLTALK_SNIPPET

(***************************************************************************)
(* Properties of classify_intent (SpecClassify)                            *)
(***************************************************************************)
\* classify_intent has returned for the text in text
Classified == pc = "classified"

\* the classified text, lower-cased: the keywords are matched whatever the case
Lowered == Lower(Val(text))

NonBlank == ~IsWhitespaceOnly(Val(text))

HasKeyword(kws) ==
  LET low == Lowered IN \E i \in 1..Len(kws) : Contains(kws[i], low)

HasQuestionMarkOrWh ==
  LET low == Lowered IN
  \/ Contains("?", Val(text))
  \/ \E w \in {"what", "how", "when", "where", "why", "which"} : Contains(w, low)

HasSmalltalkKeyword ==
  LET low == Lowered IN \E kw \in SMALLTALK_KEYWORDS : Contains(kw, low)

\* the words of the text once trimmed and freed of its closing . ! ?
WordCount == Len(Split(RStrip(Strip(Lowered), {".", "!", "?"})))

\* C6: a non-blank text in which a banking keyword or a problem keyword
\* occurs as a substring is classified banking, whatever its question marks,
\* WH-words, chit-chat patterns, smalltalk keywords, meta-intent phrasing or
\* word count.
C6_KeywordMeansBanking ==
  (Classified /\ NonBlank
     /\ (HasKeyword(BANK_KEYWORDS) \/ HasKeyword(PROBLEM_KEYWORDS))) =>
    intent = Some("banking")

\* a banking keyword inside a longer word, after a greeting pattern
C6_Witness ==
  /\ Classified
  /\ Contains("shopping", Lowered)
  /\ Contains("how are you", Lowered)
  /\ ~Contains("?", Val(text))
  /\ intent = Some("banking")

\* C7: a non-blank text without banking or problem keyword that has a
\* question mark or a WH-word is smalltalk exactly when it contains
\* "how are you" or "how's it going", and banking otherwise, whatever the
\* smalltalk score and word count.
C7_QuestionRule ==
  (Classified /\ NonBlank /\ ~HasKeyword(BANK_KEYWORDS)
     /\ ~HasKeyword(PROBLEM_KEYWORDS) /\ HasQuestionMarkOrWh) =>
    IF Contains("how are you", Lowered) \/ Contains("how's it going", Lowered)
      THEN intent = Some("smalltalk")
      ELSE intent = Some("banking")

\* a long chit-chat question
C7_Witness ==
  /\ Classified
  /\ Contains("How's it going", Val(text))
  /\ Contains("?", Val(text))
  /\ WordCount > 12
  /\ intent = Some("smalltalk")

\* the meta-intent phrasings the specification lists
ListedMetaIntent ==
  \/ Contains("i have a question", Lowered)
  \/ Contains("want to ask", Lowered)
  \/ Contains("can i ask", Lowered)
  \/ Contains("can you answer", Lowered)

\* the meta-intent phrasings the code tests
TestedMetaIntent ==
  \/ (Contains("question", Lowered) /\ Contains("have", Lowered))
  \/ Contains("want to ask", Lowered)
  \/ Contains("can i ask", Lowered)
  \/ Contains("can you answer", Lowered)
  \/ Contains("you can answer", Lowered)

NoKeywordNoQuestion ==
  /\ Classified
  /\ NonBlank
  /\ ~HasKeyword(BANK_KEYWORDS)
  /\ ~HasKeyword(PROBLEM_KEYWORDS)
  /\ ~HasQuestionMarkOrWh

\* C8 as stated: without keyword and question, a text is smalltalk exactly
\* when (smalltalk keyword, at most 12 words, one of the listed meta-intent
\* phrasings) or (smalltalk keyword, at most 6 words) or (at most 4 words),
\* and banking otherwise.
C8_AsStated ==
  NoKeywordNoQuestion =>
    IF \/ (HasSmalltalkKeyword /\ WordCount <= 12 /\ ListedMetaIntent)
       \/ (HasSmalltalkKeyword /\ WordCount <= 6)
       \/ WordCount <= 4
      THEN intent = Some("smalltalk")
      ELSE intent = Some("banking")

\* C8 amended: the same, a meta-intent phrasing being: "question" and "have"
\* both occurring anywhere, or "want to ask", "can i ask", "can you answer"
\* or "you can answer" occurring.
C8_SmalltalkRules ==
  NoKeywordNoQuestion =>
    IF \/ (HasSmalltalkKeyword /\ WordCount <= 12 /\ TestedMetaIntent)
       \/ (HasSmalltalkKeyword /\ WordCount <= 6)
       \/ WordCount <= 4
      THEN intent = Some("smalltalk")
      ELSE intent = Some("banking")

\* 7 to 12 words, a smalltalk keyword and "you can answer": smalltalk
C8_Witness ==
  /\ NoKeywordNoQuestion
  /\ HasSmalltalkKeyword
  /\ WordCount >= 7
  /\ WordCount <= 12
  /\ Contains("you can answer", Lowered)
  /\ ~ListedMetaIntent
  /\ intent = Some("smalltalk")

\* C9: "hi", "hello", "thanks", "ok" and "bye" are classified smalltalk with
\* any history.
C9_Greetings ==
  (Classified /\ Val(text) \in {"hi", "hello", "thanks", "ok", "bye"}) =>
    intent = Some("smalltalk")

\* "thanks" with a previous turn
C9_Witness ==
  /\ Classified
  /\ text = Some("thanks")
  /\ Len(HistoryOf(history)) > 0
  /\ intent = Some("smalltalk")


(***************************************************************************)
(* Repeated calls of classify_intent, each remembered by the next one      *)
(***************************************************************************)
\* texts handed to classify_intent one call after the other
RepeatTexts == {"", "hi", "thanks for the help", "OTP not working", "zz zz", "why"}

RepeatHistories ==
  {<<>>,
   <<<<"hi", "Hello. How can I support your customer call?">>>>,
   <<<<"OTP not working", "Ask the customer to resend the code.">>,
     <<"thanks", "You're welcome.">>>>}

\* one call classify_intent(t, h): it assigns no global and calls no collaborator
classify_call(t, h) ==
  /\ previous' = IF IsNone(intent) THEN None
                 ELSE Some(<<Val(text), Val(history), Val(intent)>>)
  /\ text' = Some(t)
  /\ history' = Some(h)
  /\ intent' = Some(classify_intent(t, h))
  /\ pc' = "classified"
  /\ UNCHANGED <<question, k, retrieval_question, context_docs, best_distance,
                 prompt, retrieverCalls, generatorCalls, response, result,
                 followup_flag, n_results, history_text, thrown, error>>
  /\ UNCHANGED <<messages, user_query, processing_query>>
  /\ UNCHANGED store

ClassifyAgain ==
  \E t \in RepeatTexts, h \in RepeatHistories : classify_call(t, h)

NextRepeat == ClassifyAgain

SpecRepeat == Init /\ [][NextRepeat]_vars

MaxPairs == 2

\* most neutral words put into a question
MaxNeutral == 8

FollowupLeads == {"", "What About", "tools", "Savings", "branch"}

FollowupTails == {"", " fee", " LIST"}

FollowupPunctuations == {"", "?", " ?!.", ","}

FollowupQuestions ==
  {Strip(a \o Fill(n) \o b) \o p :
     a \in FollowupLeads, n \in 0..MaxNeutral, b \in FollowupTails,
     p \in FollowupPunctuations}

FollowupPairs ==
  {<<"Savings account fee?", "The fee is listed in the tariff.">>,
   <<"Branch list", "Sure. What case are you working on?">>}

FollowupHistories ==
  UNION {[1..n -> FollowupPairs] : n \in 0..MaxPairs}

\* one call is_followup(q, h)
followup_call(q, h) ==
  /\ question' = Some(q)
  /\ history' = Some(h)
  /\ followup_flag' = Some(is_followup(q, h))
  /\ pc' = "decided"
  /\ UNCHANGED <<k, text, intent, retrieval_question, context_docs,
                 best_distance, prompt, retrieverCalls, generatorCalls,
                 response, result, n_results, history_text, thrown, error>>
  /\ UNCHANGED session

IsFollowup ==
  /\ pc = "idle"
  /\ \E q \in FollowupQuestions, h \in FollowupHistories : followup_call(q, h)

NextFollowup ==
  \/ IsFollowup
  \/ NextTurn

SpecFollowup == Init /\ [][NextFollowup]_vars

\* the question as is_followup is said to look at it
StrippedQuestion(q) == RStrip(Strip(Lower(q)), {"?", "!", "."})

AtMostSixWords(q) == Len(Split(StrippedQuestion(q))) <= 6

HasMarker(q) ==
  \E i \in 1..Len(MARKERS) : Contains(MARKERS[i], StrippedQuestion(q))

SharesToken(q, user_text) ==
  \E i \in 1..Len(Split(StrippedQuestion(q))) :
    \E j \in 1..Len(Split(Lower(user_text))) :
      Split(StrippedQuestion(q))[i] = Split(Lower(user_text))[j]

\* C12: is_followup is false on an empty history; on a non-empty one it is true
\* exactly when the lower-cased question without its trailing punctuation has at
\* most 6 words, or holds a continuation marker, or shares a token with the
\* lower-cased user text of the last pair; no other pair counts.
C12_Followup ==
  pc = "decided" =>
    LET q == Val(question)
        h == Val(history)
    IN /\ Len(h) = 0 => Val(followup_flag) = FALSE
       /\ Len(h) > 0 =>
            (Val(followup_flag) <=>
               \/ AtMostSixWords(q)
               \/ HasMarker(q)
               \/ SharesToken(q, h[Len(h)][1]))

\* a long question without marker that shares a token with the first pair only
C12_Witness ==
  /\ pc = "decided"
  /\ Len(Val(history)) = 2
  /\ ~AtMostSixWords(Val(question))
  /\ ~HasMarker(Val(question))
  /\ SharesToken(Val(question), Val(history)[1][1])
  /\ ~SharesToken(Val(question), Val(history)[2][1])
  /\ Val(followup_flag) = FALSE

(***************************************************************************)
(* The retrieval query                                                     *)
(***************************************************************************)
\* the call went past classification as a banking question
BankingCall == Called /\ intent = Some("banking")

C14_RawQuery ==
  (BankingCall /\ ~(Len(HistoryOf(history)) > 0 /\ followup_flag = Some(TRUE))) =>
    /\ retrieverCalls = 1
    /\ retrieval_question = Some(RawQ(question))
    /\ n_results = Some(k)

\* a long question with a capital and a trailing blank, after an unrelated turn
C14_Witness ==
  /\ BankingCall
  /\ Len(HistoryOf(history)) > 0
  /\ followup_flag = Some(FALSE)
  /\ RawQ(question) /= Strip(Lower(RawQ(question)))
  /\ RawQ(question) /= Strip(RawQ(question))
  /\ retrieval_question = question
  /\ k = 2
  /\ n_results = Some(2)

(***************************************************************************)
(* Failures of the collaborators                                           *)
(***************************************************************************)
\* the claim C15 as it is stated: no call of answer_question ends with an
\* exception, whatever the retriever and the generator do.
C15_AsStated ==
  /\ pc /= "raised"
  /\ pc = "returned" => (~IsNone(result) /\ Len(Val(result)) = 2)

\* C15: a call of answer_question that has returned has returned a pair of two
\* strings and no exception; a call ends with an exception only when the
\* retriever or the generator raised one, and then it returns nothing.
C15_ReturnsOrPropagates ==
  /\ pc = "returned" =>
       /\ ~IsNone(result)
       /\ Len(Val(result)) = 2
       /\ Answer \in STRING
       /\ Snippet \in STRING
       /\ IsNone(thrown)
       /\ IsNone(error)
  /\ pc = "raised" =>
       /\ ~IsNone(thrown)
       /\ ~IsNone(error)
       /\ IsNone(result)

\* the generator raised and the call ended with that exception
C15_Witness ==
  /\ pc = "raised"
  /\ thrown = Some(<<"generator", "RuntimeError">>)
  /\ error = Some("RuntimeError")
  /\ IsNone(result)

\* C16: a failure of the retriever or the generator leaves answer_question
\* unchanged: the collaborator that failed was called once, no answer is
\* returned in its place, and after a retriever failure the generator is not
\* called.
C16_Propagated ==
  ~IsNone(thrown) =>
    /\ pc = "raised"
    /\ IsNone(result)
    /\ error = Some(Val(thrown)[2])
    /\ retrieverCalls = 1
    /\ Val(thrown)[1] = "retriever" => (generatorCalls = 0 /\ IsNone(response))
    /\ Val(thrown)[1] = "generator" => generatorCalls = 1

\* the retriever raised: the generator was not called, nothing was returned
C16_Witness ==
  /\ thrown = Some(<<"retriever", "ConnectionError">>)
  /\ error = Some("ConnectionError")
  /\ pc = "raised"
  /\ retrieverCalls = 1
  /\ generatorCalls = 0

\* C17: when the generator returns an empty or missing text, the answer is
\* "Sorry, I could not generate an answer.", the snippet is the text of the
\* first retrieved document, and nothing is raised.
C17_EmptyGeneration ==
  (~IsNone(response) /\ (IsNone(Val(response)) \/ Val(response) = Some(""))) =>
    /\ pc = "returned"
    /\ Answer = "Sorry, I could not generate an answer."
    /\ Len(context_docs) > 0
    /\ Snippet = context_docs[1][1]
    /\ IsNone(error)

\* the generator answered with the empty string, two documents were retrieved
C17_Witness ==
  /\ pc = "returned"
  /\ response = Some(Some(""))
  /\ Len(context_docs) = 2
  /\ context_docs[1][1] /= context_docs[2][1]
  /\ Answer = "Sorry, I could not generate an answer."
  /\ Snippet = context_docs[1][1]

\* C18: no step of a call of answer_question changes the caller's history.
C18_HistoryKept ==
  [][pc /= "idle" => history' = history \/ pc' = "idle"]_vars

\* a call with a history of one pair went through retrieval and generation
C18_Witness ==
  /\ pc = "returned"
  /\ generatorCalls = 1
  /\ history = Some(<<<<"Branch list", "Sure. What case are you working on?">>>>)

(***************************************************************************)
(* answer_question called with long histories                              *)
(***************************************************************************)
\* longest history of a session
MaxMemory == 7

\* where a session's history can start in the list of topics
MaxOffset == 2

Topics ==
  <<"alpha", "bravo", "charlie", "delta", "echo", "foxtrot", "golf", "hotel",
    "india", "juliet", "kilo", "lima">>

\* the i-th turn of a session: what the agent asked, what the assistant said
Turn(i) ==
  LET w == Topics[((i - 1) % Len(Topics)) + 1]
  IN <<"fee for " \o w, "See the tariff of " \o w \o ".">>

MemoryHistories ==
  {[i \in 1..n |-> Turn(i + off)] : n \in 0..MaxMemory, off \in 0..MaxOffset}

MemoryQuestions ==
  {"I cannot login to the mobile app", "what about for fixed deposit?"}

AnswerWithMemory ==
  /\ pc = "idle"
  /\ \E q \in MemoryQuestions, h \in MemoryHistories :
       answer_question(Some(q), Some(h), k)

\* the index answers with at most one hit
RetrieverReturnsOne ==
  /\ pc = "retrieving"
  /\ \E results \in QueryResults(1) : retriever_returns(results)

NextMemory ==
  \/ AnswerWithMemory
  \/ RetrieverReturnsOne
  \/ RetrieverRaises
  \/ GeneratorReturns
  \/ GeneratorRaises
  \/ NextTurn

SpecMemory == Init /\ [][NextMemory]_vars

RECURSIVE RenderFrom(_, _)
\* the pairs i.. of h, oldest first, two lines each
RenderFrom(h, i) ==
  "Agent: " \o h[i][1] \o "\n" \o "Assistant: " \o h[i][2]
    \o (IF i < Len(h) THEN "\n" \o RenderFrom(h, i + 1) ELSE "")

\* the text the last min(6, n) pairs are said to give
ExpectedMemory(h) ==
  IF Len(h) = 0 THEN ""
  ELSE RenderFrom(h, IF Len(h) > 6 THEN Len(h) - 6 + 1 ELSE 1)

\* C19: the short-term memory text of the prompt is the last min(6, n) pairs of
\* the history, oldest first, each as an "Agent:" line and an "Assistant:" line;
\* no older pair is in the prompt, and an empty history gives the empty text.
C19_ShortTermMemory ==
  ~IsNone(prompt) =>
    LET h == HistoryOf(history)
        user_prompt == Val(prompt)[2]
    IN /\ history_text = Some(ExpectedMemory(h))
       /\ SubSeq(user_prompt, 1, Len(ExpectedMemory(h)) + 2)
            = ExpectedMemory(h) \o "\n\n"
       /\ \A i \in 1..Len(h) :
            i <= Len(h) - 6 => /\ ~Contains(h[i][1], user_prompt)
                               /\ ~Contains(h[i][2], user_prompt)
       /\ Len(h) = 0 => Val(history_text) = ""

\* seven pairs: the prompt holds the last six and not the first
C19_Witness ==
  /\ pc = "generating"
  /\ Len(HistoryOf(history)) = 7
  /\ ~IsNone(prompt)
  /\ Contains("Agent: fee for bravo\nAssistant: See the tariff of bravo.\nAgent: fee for charlie",
              Val(prompt)[2])
  /\ ~Contains("alpha", Val(prompt)[2])

(***************************************************************************)
(* The chat page of app/ui.py: the session state and the processing block  *)
(***************************************************************************)
\* most messages kept in a session
MaxMessages == 4

\* what the agent types into the query box
UiInputs == {"", "  ", "OTP not working ", "hi", "what about card fee?"}

\* ui.py line 457: the text input is bound to st.session_state.user_query
TypeQuery ==
  /\ pc = "idle"
  /\ \E t \in UiInputs : user_query' = t
  /\ UNCHANGED <<pc, question, history, k, text, intent, retrieval_question,
                 context_docs, best_distance, prompt, retrieverCalls,
                 generatorCalls, response, result, followup_flag, n_results,
                 history_text, thrown, error, previous, messages,
                 processing_query>>
  /\ UNCHANGED store

\* ui.py lines 271-287
handle_send ==
  LET query == Strip(user_query) IN
  /\ query /= ""
  /\ messages' = Append(messages, [role |-> "user", content |-> query])
  /\ user_query' = ""
  /\ processing_query' = TRUE
  /\ UNCHANGED <<pc, question, history, k, text, intent, retrieval_question,
                 context_docs, best_distance, prompt, retrieverCalls,
                 generatorCalls, response, result, followup_flag, n_results,
                 history_text, thrown, error, previous>>
  /\ UNCHANGED store

\* ui.py line 459: the Send button runs handle_send before the next run of the
\* page, whether or not the page was processing a query; the session has room
HandleSend ==
  /\ pc = "idle"
  /\ Len(messages) < MaxMessages
  /\ handle_send

\* ui.py lines 212-215 and 360-362
clear_chat ==
  /\ messages' = <<>>
  /\ user_query' = ""
  /\ processing_query' = FALSE
  /\ UNCHANGED <<pc, question, history, k, text, intent, retrieval_question,
                 context_docs, best_distance, prompt, retrieverCalls,
                 generatorCalls, response, result, followup_flag, n_results,
                 history_text, thrown, error, previous>>
  /\ UNCHANGED store

ClearChat ==
  /\ pc = "idle"
  /\ clear_chat

\* ui.py lines 415-420: one pair per message of the session
history_pairs(msgs) ==
  LET kept == SelectSeq(msgs, LAMBDA m : m.role \in {"user", "assistant"})
  IN [i \in 1..Len(kept) |-> <<kept[i].role, kept[i].content>>]

\* ui.py lines 411-427: the processing block calls answer_question, k by default
ProcessQuery ==
  /\ pc = "idle"
  /\ processing_query
  /\ answer_question(Some(messages[Len(messages)].content),
                     Some(history_pairs(messages)), 5)

\* ui.py lines 433-448: the answer is saved and the page runs again
SaveAnswer ==
  /\ pc = "returned"
  /\ processing_query
  /\ messages' = Append(messages, [role |-> "assistant", content |-> Answer])
  /\ processing_query' = FALSE
  /\ forget_call
  /\ UNCHANGED <<previous, user_query>>
  /\ UNCHANGED store

\* a widget was used while answer_question was running: the run of the page is
\* stopped at its next Streamlit command (line 429), before the answer is saved
StopRun ==
  /\ pc = "returned"
  /\ processing_query
  /\ forget_call
  /\ UNCHANGED session

\* the exception ended the run of the page; the next run starts over
RerunAfterError ==
  /\ pc = "raised"
  /\ forget_call
  /\ UNCHANGED session

NextUI ==
  \/ TypeQuery
  \/ HandleSend
  \/ ClearChat
  \/ ProcessQuery
  \/ RetrieverReturnsOne
  \/ RetrieverRaises
  \/ GeneratorReturns
  \/ GeneratorRaises
  \/ SaveAnswer
  \/ StopRun
  \/ RerunAfterError

SpecUI == Init /\ [][NextUI]_vars

\* the turns completed before the message in progress: (question, answer) pairs
PreviousTurns(msgs) ==
  [i \in 1..((Len(msgs) - 1) \div 2) |->
     <<msgs[2 * i - 1].content, msgs[2 * i].content>>]

\* C20: the history the page passes to answer_question is the sequence of
\* (userText, assistantText) pairs of the previous turns; the first component of
\* its last pair is the previous question of the agent, not a role label and not
\* the message being answered.
C20_AsStated ==
  (pc /= "idle" /\ processing_query) =>
    LET h == HistoryOf(history) IN
    /\ h = PreviousTurns(messages)
    /\ Len(h) > 0 => h[Len(h)][1] \notin {"user", "assistant"}

\* the first question of a session is answered: the history holds one pair, the
\* role label "user" with the question itself
C20_Witness ==
  /\ pc = "retrieving"
  /\ processing_query
  /\ Len(messages) = 1
  /\ history = Some(<<<<"user", "OTP not working">>>>)
  /\ retrieval_question = Some("user\nFollow-up: OTP not working")

(***************************************************************************)
(* One question at a time in a session                                     *)
(***************************************************************************)
\* positions of the user messages no assistant message follows
Waiting(msgs) ==
  {i \in 1..Len(msgs) :
     /\ msgs[i].role = "user"
     /\ (i = Len(msgs) \/ msgs[i + 1].role = "user")}

\* C21: one question is resolved before the next is accepted: handle_send
\* appends no user message while processing_query is true, so at most one user
\* message waits for its answer.
C21_AsStated ==
  Cardinality(Waiting(messages)) <= 1

\* a second question was sent while the first one was being processed
C21_Witness ==
  /\ processing_query
  /\ Len(messages) = 2
  /\ messages[1].role = "user"
  /\ messages[2].role = "user"

(***************************************************************************)
(* What retrieve_context returns                                           *)
(***************************************************************************)
\* C22: the minimum distance returned by retrieve_context is None exactly when
\* the returned list of documents is empty; otherwise it is the smallest of the
\* distances of the returned documents.
C22_MinDistance ==
  Retrieved =>
    /\ IsNone(best_distance) <=> Len(context_docs) = 0
    /\ ~IsNone(best_distance) =>
         /\ \E i \in 1..Len(context_docs) : context_docs[i][3] = Val(best_distance)
         /\ \A i \in 1..Len(context_docs) : Val(best_distance) <= context_docs[i][3]

\* two documents came back, the nearer one second
C22_Witness ==
  /\ Retrieved
  /\ Len(context_docs) = 2
  /\ context_docs[1][3] = 15
  /\ context_docs[2][3] = 8
  /\ best_distance = Some(8)

(***************************************************************************)
(* build_prompt alone                                                      *)
(***************************************************************************)
\* longest list of documents handed to build_prompt
MaxDocs == 2

\* lists of (doc_text, metadata, distance)
PromptDocs ==
  {[i \in 1..Len(l) |-> <<l[i][1][1], l[i][1][2], l[i][2]>>] : l \in Hits(MaxDocs)}

PromptQuestions == {"", "OTP not working"}

PromptHistoryTexts ==
  {"", "Agent: fee for alpha\nAssistant: See the tariff of alpha."}

\* one call build_prompt(q, docs, history_text=htext)
prompt_call(q, docs, htext) ==
  /\ question' = Some(q)
  /\ context_docs' = docs
  /\ history_text' = Some(htext)
  /\ prompt' = Some(build_prompt(q, docs, htext))
  /\ pc' = "built"
  /\ UNCHANGED <<history, k, text, intent, retrieval_question, best_distance,
                 retrieverCalls, generatorCalls, response, result,
                 followup_flag, n_results, thrown, error>>
  /\ UNCHANGED session

BuildPrompt ==
  /\ pc = "idle"
  /\ \E q \in PromptQuestions, docs \in PromptDocs, htext \in PromptHistoryTexts :
       prompt_call(q, docs, htext)

NextPrompt ==
  \/ BuildPrompt
  \/ NextTurn

SpecPrompt == Init /\ [][NextPrompt]_vars

\* first position >= from at which sub stands in s, 0 when there is none
PosFrom(sub, s, from) ==
  LET ps == {p \in from..(Len(s) - Len(sub) + 1) :
               SubSeq(s, p, p + Len(sub) - 1) = sub}
  IN IF ps = {} THEN 0 ELSE CHOOSE p \in ps : \A r \in ps : p <= r

DocHeader(i) == "[Doc " \o ToString(i) \o " | "

PromptHead(htext) == htext \o "\n\n" \o "Knowledge base context:\n"

PromptFoot(q) ==
  "\n\n" \o "Agent's question: " \o q \o "\n\n"
    \o "Now produce the structured answer."

\* what stands between the head and the foot of a user prompt
ContextBlock(user_prompt, q, htext) ==
  SubSeq(user_prompt, Len(PromptHead(htext)) + 1,
         Len(user_prompt) - Len(PromptFoot(q)))

\* the block lists the documents in their order, numbered from 1
ListsInOrder(block, docs) ==
  /\ PosFrom(DocHeader(1), block, 1) = 1
  /\ PosFrom(DocHeader(Len(docs) + 1), block, 1) = 0
  /\ \A i \in 1..Len(docs) :
       LET at == PosFrom(DocHeader(i), block, 1)
           body == PosFrom("]\n" \o docs[i][1], block, at)
           next == IF i < Len(docs) THEN PosFrom(DocHeader(i + 1), block, 1)
                   ELSE Len(block) + 1
       IN /\ at > 0
          /\ body > at
          /\ body + Len(docs[i][1]) + 2 <= next
          /\ i = Len(docs) => body + Len(docs[i][1]) + 2 = next

\* C23: build_prompt returns, also for an empty list of documents, the fixed
\* system instruction and a user prompt made of the history prefix, the context
\* block, the question and the final instruction in this order; the block lists
\* the documents in their order numbered from 1 and is "No context found."
\* exactly when there is no document.
C23_Prompt ==
  pc = "built" =>
    LET q == Val(question)
        htext == Val(history_text)
        user_prompt == Val(prompt)[2]
        block == ContextBlock(user_prompt, q, htext)
    IN /\ Len(Val(prompt)) = 2
       /\ Val(prompt)[1] = SYSTEM_INSTRUCTION
       /\ SubSeq(user_prompt, 1, Len(PromptHead(htext))) = PromptHead(htext)
       /\ SubSeq(user_prompt, Len(user_prompt) - Len(PromptFoot(q)) + 1,
                 Len(user_prompt)) = PromptFoot(q)
       /\ block = "No context found." <=> Len(context_docs) = 0
       /\ Len(context_docs) > 0 => ListsInOrder(block, context_docs)

\* two different documents, a question and a history prefix
C23_Witness ==
  /\ pc = "built"
  /\ Len(context_docs) = 2
  /\ context_docs[1][1] /= context_docs[2][1]
  /\ Val(question) = "OTP not working"
  /\ Val(history_text) /= ""
  /\ PosFrom(DocHeader(2), Val(prompt)[2], 1) > PosFrom(DocHeader(1), Val(prompt)[2], 1)

(***************************************************************************)
(* build_or_load_index of app/rag.py.  The collection is the set of its    *)
(* entries; a loaded document is its text and the file it comes from.      *)
(***************************************************************************)
\* most documents the Excel files give
MaxExcel == 2

\* most documents the PDF files give
MaxPdf == 1

ExcelDocs ==
  {[text |-> "Customer question: card fee\nCustomer answer: 5 USD", source |-> "kb.xlsx"],
   [text |-> "Customer question: OTP\nCustomer answer: valid 2 minutes", source |-> "kb.xlsx"]}

PdfDocs ==
  {[text |-> "OTP is valid for 2 minutes.", source |-> "policy.pdf"]}

\* lists of at most n documents of S
DocLists(S, n) == UNION {[1..m -> S] : m \in 0..n}

\* the ids start at 1
Indexed_from_one(ds) ==
  {[id |-> "doc-" \o ToString(i), document |-> ds[i].text,
    source |-> ds[i].source] : i \in 1..Len(ds)}

\* rag.py lines 72-88: what collection.add puts into the collection
Indexed(ds) ==
  {[id |-> "doc-" \o ToString(i - 1), document |-> ds[i].text,
    source |-> ds[i].source] : i \in 1..Len(ds)}

\* the collection is rebuilt whatever it holds
build_or_load_index_always(r) ==
  /\ rebuild' = r
  /\ existing' = collection
  /\ loaded' = <<>>
  /\ collection' = {}
  /\ ops' = IF collection /= {} THEN <<"count", "get", "delete">>
            ELSE <<"count">>
  /\ pc' = "loading"
  /\ UNCHANGED <<question, history, k, text, intent, retrieval_question,
                 context_docs, best_distance, prompt, retrieverCalls,
                 generatorCalls, response, result, followup_flag, n_results,
                 history_text, thrown, error, previous, messages, user_query,
                 processing_query>>

\* rag.py lines 36-51: count, reuse, or clear the old entries
build_or_load_index(r) ==
  /\ rebuild' = r
  /\ existing' = collection
  /\ loaded' = <<>>
  /\ IF collection /= {} /\ ~r
       THEN /\ ops' = <<"count">>
            /\ pc' = "indexed"
            /\ UNCHANGED collection
       ELSE /\ collection' = {}
            /\ ops' = IF collection /= {} THEN <<"count", "get", "delete">>
                      ELSE <<"count">>
            /\ pc' = "loading"
  /\ UNCHANGED <<question, history, k, text, intent, retrieval_question,
                 context_docs, best_distance, prompt, retrieverCalls,
                 generatorCalls, response, result, followup_flag, n_results,
                 history_text, thrown, error, previous, messages, user_query,
                 processing_query>>

\* rag.py lines 53-69: the loaders swallow their errors and answer with lists
load_docs(docs_excel, docs_pdf) ==
  /\ loaded' = docs_excel \o docs_pdf
  /\ ops' = ops \o <<"load_excel", "load_pdf">>
  /\ pc' = IF Len(docs_excel \o docs_pdf) = 0 THEN "indexed" ELSE "embedding"
  /\ UNCHANGED <<question, history, k, text, intent, retrieval_question,
                 context_docs, best_distance, prompt, retrieverCalls,
                 generatorCalls, response, result, followup_flag, n_results,
                 history_text, thrown, error, previous, messages, user_query,
                 processing_query, collection, rebuild, existing>>

\* rag.py line 79: embed_texts returns (TRUE) or raises (FALSE)
embed_texts(ok) ==
  /\ ops' = Append(ops, "embed")
  /\ pc' = IF ok THEN "adding" ELSE "index_raised"
  /\ UNCHANGED <<question, history, k, text, intent, retrieval_question,
                 context_docs, best_distance, prompt, retrieverCalls,
                 generatorCalls, response, result, followup_flag, n_results,
                 history_text, thrown, error, previous, messages, user_query,
                 processing_query, collection, rebuild, loaded, existing>>

\* rag.py lines 82-90: collection.add returns (TRUE) or raises (FALSE)
collection_add(ok) ==
  /\ ops' = Append(ops, "add")
  /\ collection' = IF ok THEN Indexed(loaded) ELSE collection
  /\ pc' = IF ok THEN "indexed" ELSE "index_raised"
  /\ UNCHANGED <<question, history, k, text, intent, retrieval_question,
                 context_docs, best_distance, prompt, retrieverCalls,
                 generatorCalls, response, result, followup_flag, n_results,
                 history_text, thrown, error, previous, messages, user_query,
                 processing_query, rebuild, loaded, existing>>

BuildOrLoadIndex ==
  /\ pc = "idle"
  /\ \E r \in BOOLEAN : build_or_load_index(r)

LoadDocs ==
  /\ pc = "loading"
  /\ \E docs_excel \in DocLists(ExcelDocs, MaxExcel),
        docs_pdf \in DocLists(PdfDocs, MaxPdf) : load_docs(docs_excel, docs_pdf)

EmbedTexts ==
  /\ pc = "embedding"
  /\ \E ok \in BOOLEAN : embed_texts(ok)

CollectionAdd ==
  /\ pc = "adding"
  /\ \E ok \in BOOLEAN : collection_add(ok)

\* the call is over: its locals are gone, the collection stays
IndexReturn ==
  /\ pc \in {"indexed", "index_raised"}
  /\ pc' = "idle"
  /\ rebuild' = FALSE
  /\ loaded' = <<>>
  /\ existing' = {}
  /\ ops' = <<>>
  /\ UNCHANGED <<question, history, k, text, intent, retrieval_question,
                 context_docs, best_distance, prompt, retrieverCalls,
                 generatorCalls, response, result, followup_flag, n_results,
                 history_text, thrown, error, previous, messages, user_query,
                 processing_query, collection>>

NextIndex ==
  \/ BuildOrLoadIndex
  \/ LoadDocs
  \/ EmbedTexts
  \/ CollectionAdd
  \/ IndexReturn

SpecIndex == Init /\ [][NextIndex]_vars

\* C24: with a collection that holds a document and rebuild false,
\* build_or_load_index returns the collection as it was: nothing is deleted,
\* loaded, embedded or added.
C24_Reuse ==
  (pc = "indexed" /\ existing /= {} /\ ~rebuild) =>
    /\ collection = existing
    /\ loaded = <<>>
    /\ \A i \in 1..Len(ops) :
         ops[i] \notin {"get", "delete", "load_excel", "load_pdf", "embed", "add"}

\* a collection of three entries is reused
C24_Witness ==
  /\ pc = "indexed"
  /\ ~rebuild
  /\ Cardinality(existing) = 3
  /\ collection = existing
  /\ ops = <<"count">>

\* C25: after a rebuild (rebuild true, or an empty collection) that returns
\* normally, the collection holds exactly the documents loaded in this call,
\* the Excel ones before the PDF ones, under the ids doc-0 .. doc-(n-1), and
\* nothing that was indexed before.
C25_Rebuilt ==
  (pc = "indexed" /\ (rebuild \/ existing = {})) =>
    /\ Cardinality(collection) = Len(loaded)
    /\ \A i \in 1..Len(loaded) :
         \E e \in collection :
           /\ e.id = "doc-" \o ToString(i - 1)
           /\ e.document = loaded[i].text
           /\ e.source = loaded[i].source
    /\ \A i \in 1..Len(loaded) : \A j \in 1..Len(loaded) :
         (loaded[i].source = "policy.pdf" /\ loaded[j].source = "kb.xlsx") => j < i

\* three entries are replaced by two other documents, one Excel and one PDF
C25_Witness ==
  /\ pc = "indexed"
  /\ rebuild
  /\ Cardinality(existing) = 3
  /\ Len(loaded) = 2
  /\ loaded[2].source = "policy.pdf"
  /\ Cardinality(collection) = 2
  /\ \E e \in existing : e \notin collection

(***************************************************************************)
(* Order of the stages of answer_question                                  *)
(***************************************************************************)
\* C26: in a call of answer_question the retriever is invoked at most once,
\* after the script check and the intent check and with the rewritten query;
\* the generator is invoked at most once, only after the retriever returned
\* documents whose minimum distance is at most 1.2; and once a reply has been
\* chosen no collaborator is invoked.
C26_StageOrder ==
  [][/\ retrieverCalls' > retrieverCalls =>
          /\ pc = "idle"
          /\ retrieverCalls' = 1
          /\ generatorCalls' = 0
          /\ ~HasKhmerChar(RawQ(question'))
          /\ intent' = Some("banking")
          /\ ~IsNone(retrieval_question')
          /\ IsNone(result')
     /\ generatorCalls' > generatorCalls =>
          /\ pc = "retrieving"
          /\ retrieverCalls = 1
          /\ generatorCalls' = 1
          /\ Len(context_docs') > 0
          /\ ~IsNone(best_distance')
          /\ Val(best_distance') <= 12
          /\ ~IsNone(prompt')
          /\ IsNone(result')
     /\ ~IsNone(result) =>
          /\ pc = "returned"
          /\ retrieverCalls' <= retrieverCalls
          /\ generatorCalls' <= generatorCalls
    ]_vars

\* a call went through every stage, the best distance being the threshold
C26_Witness ==
  /\ pc = "returned"
  /\ retrieverCalls = 1
  /\ generatorCalls = 1
  /\ best_distance = Some(12)
  /\ Len(context_docs) = 2
  /\ ~IsNone(response)

(***************************************************************************)
(* The snippet and the distance the gate looked at                         *)
(***************************************************************************)
\* the call returned after retrieve_context gave at least one document
ReturnedWithDocs ==
  /\ pc = "returned"
  /\ retrieverCalls = 1
  /\ Len(context_docs) > 0

\* the distances never decrease along the list
Ascending(docs) ==
  \A i \in 1..(Len(docs) - 1) : docs[i][3] <= docs[i + 1][3]

\* the claim C27 as it is stated: whatever the order of the results, the snippet
\* is the text of a document at the minimum distance.
C27_AsStated ==
  ReturnedWithDocs =>
    \E i \in 1..Len(context_docs) :
      /\ context_docs[i][1] = Snippet
      /\ context_docs[i][3] = Val(best_distance)

\* C27: the snippet is the text of the first document of the list; its distance
\* is the minimum distance the gate compared when the index returns its results
\* in ascending order of distance.
C27_FirstDocument ==
  ReturnedWithDocs =>
    /\ Snippet = context_docs[1][1]
    /\ Ascending(context_docs) => context_docs[1][3] = Val(best_distance)

\* two different documents in ascending order, at different distances
C27_Witness ==
  /\ ReturnedWithDocs
  /\ Len(context_docs) = 2
  /\ context_docs[1][3] = 8
  /\ context_docs[2][3] = 15
  /\ context_docs[1][1] /= context_docs[2][1]
  /\ Snippet = context_docs[1][1]
  /\ best_distance = Some(8)

(***************************************************************************)
(* A rebuild that does not complete                                        *)
(***************************************************************************)
\* the call ended without adding anything: no document was loaded, or
\* embed_texts or collection.add raised
NothingAdded ==
  \/ (pc = "indexed" /\ (rebuild \/ existing = {}) /\ Len(loaded) = 0)
  \/ pc = "index_raised"

\* C28: a rebuild never loses the index without replacing it: when no document
\* is loaded, or embedding or adding raises, the collection still holds what it
\* held before the call.
C28_AsStated ==
  NothingAdded => collection = existing

\* three entries were indexed, the rebuild loaded nothing, the collection is empty
C28_Witness ==
  /\ pc = "indexed"
  /\ rebuild
  /\ Cardinality(existing) = 3
  /\ Len(loaded) = 0
  /\ collection = {}

(***************************************************************************)
(* Every question of a session gets its answer                             *)
(***************************************************************************)
\* C29: a user message appended by handle_send is followed by exactly one
\* assistant message, its answer, and not by another user message;
\* processing_query is true only while the last message of the session is a
\* user message without answer.
C29_AsStated ==
  /\ \A i \in 1..(Len(messages) - 1) :
       messages[i].role = "user" => messages[i + 1].role = "assistant"
  /\ processing_query =>
       /\ Len(messages) > 0
       /\ messages[Len(messages)].role = "user"

\* the first question of the session is followed by a second question and then
\* by the answer to the second one
C29_Witness ==
  /\ ~processing_query
  /\ Len(messages) = 3
  /\ messages[1].role = "user"
  /\ messages[2].role = "user"
  /\ messages[3].role = "assistant"

(***************************************************************************)
(* extract_english_block of app/load_pdf.py                                *)
(***************************************************************************)
\* most lines of a page
MaxLines == 4

\* the range U+4E00 .. U+9FFF of _has_chinese; in the pages of this model the
\* signs § and ¶ stand for two characters of that range
ChineseBlock == {"§", "¶"}

LatinLower ==
  {"a", "b", "c", "d", "e", "f", "g", "h", "i", "j", "k", "l", "m", "n", "o",
   "p", "q", "r", "s", "t", "u", "v", "w", "x", "y", "z"}

\* load_pdf.py lines 6-11
is_english_line(line) ==
  \E i \in 1..Len(line) : LowerChar(CharAt(line, i)) \in LatinLower

\* load_pdf.py lines 13-15
has_chinese(line) ==
  \E i \in 1..Len(line) : CharAt(line, i) \in ChineseBlock

\* page_text.splitlines(), for the line break "\n"
splitlines(s) ==
  LET cuts == {i \in 1..Len(s) : CharAt(s, i) = "\n"}
      cut(n) == IF n = 0 THEN 0
                ELSE IF n > Cardinality(cuts) THEN Len(s) + 1
                ELSE CHOOSE c \in cuts : Cardinality({d \in cuts : d < c}) = n - 1
      pieces == [n \in 1..(Cardinality(cuts) + 1) |->
                   SubSeq(s, cut(n - 1) + 1, cut(n) - 1)]
  IN IF pieces[Len(pieces)] = "" THEN SubSeq(pieces, 1, Len(pieces) - 1)
     ELSE pieces

\* a Chinese line never ends the loop
stops_at_chinese_never(started) == FALSE

\* load_pdf.py lines 30-35: break when collection has started, else continue
stops_at_chinese(started) == started

RECURSIVE collect_lines(_, _, _, _)
\* load_pdf.py lines 26-42: the loop over the lines, from line i on
collect_lines(lines, i, started, english_lines) ==
  IF i > Len(lines) THEN english_lines
  ELSE LET line == lines[i] IN
       IF line = "" THEN collect_lines(lines, i + 1, started, english_lines)
       ELSE IF has_chinese(line) THEN
         IF stops_at_chinese(started) THEN english_lines
         ELSE collect_lines(lines, i + 1, started, english_lines)
       ELSE LET now == started \/ is_english_line(line) IN
            collect_lines(lines, i + 1, now,
                          IF now THEN Append(english_lines, line)
                          ELSE english_lines)

\* load_pdf.py lines 17-44
extract_english_block(page_text) ==
  LET raw == splitlines(page_text)
      lines == [i \in 1..Len(raw) |-> Strip(raw[i])]
  IN Strip(Join("\n", collect_lines(lines, 1, FALSE, <<>>)))

\* lines of a page as pdfplumber gives them
PageLines ==
  {"", "Terms and Conditions", " 1. Fee ", "2024", "§¶ Terms", "¶§"}

PageTexts ==
  {Join("\n", ls) : ls \in UNION {[1..n -> PageLines] : n \in 0..MaxLines}}

\* one call extract_english_block(page_text)
extract_call(page_text) ==
  /\ text' = Some(page_text)
  /\ result' = Some(extract_english_block(page_text))
  /\ pc' = "extracted"
  /\ UNCHANGED <<question, history, k, intent, retrieval_question,
                 context_docs, best_distance, prompt, retrieverCalls,
                 generatorCalls, response, followup_flag, n_results,
                 history_text, thrown, error>>
  /\ UNCHANGED session

ExtractEnglishBlock ==
  /\ pc = "idle"
  /\ \E page_text \in PageTexts : extract_call(page_text)

NextExtract ==
  \/ ExtractEnglishBlock
  \/ NextTurn

SpecExtract == Init /\ [][NextExtract]_vars

\* the stripped lines of the page
StrippedLines(page_text) ==
  [i \in 1..Len(splitlines(page_text)) |-> Strip(splitlines(page_text)[i])]

\* positions of the lines with a Latin letter and no Chinese character
EnglishAt(ls) ==
  {i \in 1..Len(ls) : is_english_line(ls[i]) /\ ~has_chinese(ls[i])}

Least(S) == CHOOSE x \in S : \A y \in S : x <= y

\* positions of the lines the block is said to keep
KeptAt(ls) ==
  IF EnglishAt(ls) = {} THEN {}
  ELSE LET first == Least(EnglishAt(ls))
           chinese == {j \in first..Len(ls) : has_chinese(ls[j])}
           stop == IF chinese = {} THEN Len(ls) + 1 ELSE Least(chinese)
       IN {i \in first..(stop - 1) : ls[i] /= ""}

\* the lines at the positions S, in their order
LinesAt(ls, S) == SelectSeq([i \in 1..Len(ls) |-> IF i \in S THEN <<ls[i]>> ELSE <<>>],
                            LAMBDA x : x /= <<>>)

\* C30: extract_english_block returns no line with a Chinese character: it
\* skips the lines before the first one with a Latin letter and no Chinese
\* character, keeps every non-empty line from there on in order, and stops at
\* the first line with a Chinese character after that; no later line is returned.
C30_EnglishBlock ==
  pc = "extracted" =>
    LET ls == StrippedLines(Val(text))
        kept == LinesAt(ls, KeptAt(ls))
        out == splitlines(Val(result))
    IN /\ ~has_chinese(Val(result))
       /\ Len(out) = Len(kept)
       /\ \A i \in 1..Len(out) : out[i] = kept[i][1]

\* a number, an English line, a Chinese line, then an English line again
C30_Witness ==
  /\ pc = "extracted"
  /\ text = Some("2024\n 1. Fee \n¶§\nTerms and Conditions")
  /\ result = Some("1. Fee")

====
